---- MODULE Spec2Model ----
(***************************************************************************)
(* A state-machine model of MultiStaticCameraPipeline                       *)
(* (multi_static_camera_pipeline.cpp) and of the raycast cache of           *)
(* MultiStaticCameraGLState (multi_static_camera_gl_state.cpp).             *)
(*                                                                         *)
(* Camera indices are 0-based as in the C++ code; the per-camera vectors    *)
(* are TLA+ sequences, so camera i is element i + 1.                        *)
(***************************************************************************)
EXTENDS Integers, Sequences, FiniteSets, TLC

VARIABLES
  constructed,                   \* the constructor has returned
  camera_params_,                \* std::vector<RGBDCameraParameters>
  depth_camera_poses_cfw_,       \* std::vector<EuclideanTransform>
  depth_processor_,              \* DepthProcessor: the intrinsics and range it was built with
  depth_meters_,                 \* per-camera raw depth
  depth_camera_undistort_maps_,  \* per-camera undistortion map
  undistorted_depth_meters_,     \* per-camera undistorted depth
  input_buffers_,                \* per-camera InputBuffer (its depth_meters)
  regular_grid_,                 \* the shared TSDF volume: the observations fused so far
  call,                          \* the last pipeline call: [op, arg, ret]
  fault,                         \* the process has crashed (segmentation fault)
  tsdf_is_dirty_,                \* GL state: the cached raycast is out of date
  free_camera_,                  \* GL state: the stored free camera
  window_size_,                  \* GL state: the window size of the last Resize
  free_camera_world_positions_,  \* GL state: raycast output buffer [size, content]
  free_camera_world_normals_,    \* GL state: raycast output buffer [size, content]
  free_camera_world_positions_tex_,  \* GL state: texture [size, content]
  free_camera_world_normals_tex_,    \* GL state: texture [size, content]
  tsdf_updates,                  \* number of NotifyTSDFUpdated calls so far
  glcall                         \* the last GL-state call: [op, raycast, drawn]

pipeVars == <<constructed, camera_params_, depth_camera_poses_cfw_,
              depth_processor_, depth_meters_, depth_camera_undistort_maps_,
              undistorted_depth_meters_, input_buffers_, regular_grid_,
              call, fault>>

glVars == <<tsdf_is_dirty_, free_camera_, window_size_,
            free_camera_world_positions_, free_camera_world_normals_,
            free_camera_world_positions_tex_, free_camera_world_normals_tex_,
            tsdf_updates, glcall>>

vars == <<pipeVars, glVars>>

(***************************************************************************)
(* Bounds of the model.                                                     *)
(***************************************************************************)
\* largest number of cameras a pipeline is constructed with
MaxCameras == 2

\* Fuse()/FuseMultiple() are taken on a volume of fewer than this many
\* observations, empty or not; the call then adds all of its observations
MaxVolume == 3

\* largest number of NotifyTSDFUpdated calls counted
MaxUpdates == 2

(***************************************************************************)
(* Program constants.                                                       *)
(***************************************************************************)
\* std::vector<CalibratedPosedDepthCamera> c(3) in FuseMultiple
BatchSlots == 3

\* kFullscreenRaycastDownsampleFactor
kFullscreenRaycastDownsampleFactor == 1

(***************************************************************************)
(* Values.                                                                  *)
(***************************************************************************)
\* contents of a freshly allocated image buffer nobody has written
Blank == [written |-> FALSE]

\* depth frames the capture source writes
Frames == {[written |-> TRUE, frame |-> "frame"]}

\* what a read outside a vector's storage yields when it does not crash
Garbage == [garbage |-> TRUE]

\* the depth map of a batch entry that has none
NoDepthMap == [missing |-> TRUE]

\* a pose read outside depth_camera_poses_cfw_ when the read does not crash
GarbagePose == -1

\* the calibration of the k-th camera (1-based) of a calibration list; bad
\* marks the camera whose depth resolution is non-positive
Calibration(k, bad) ==
  [intrinsics |-> 10 + k, depth_range |-> 20 + k,
   resolution |-> IF k = bad THEN 0 ELSE 1,
   undistortion_map |-> 30 + k]

\* a calibration list of n cameras of positive resolution
CalibrationList(n) == [k \in 1..n |-> Calibration(k, 0)]

\* a pose list of m poses
PoseList(m) == [k \in 1..m |-> 40 + k]

\* the (camera_params, depth_camera_poses_cfw) pairs handed to the
\* constructor: one pose per camera for one to MaxCameras cameras, a pose
\* list shorter and one longer than the calibration list, and a camera of
\* resolution 0
ConstructorInputs ==
  { << CalibrationList(n), PoseList(n) >> : n \in 1..MaxCameras }
    \cup { << CalibrationList(2), PoseList(1) >>,
            << CalibrationList(1), PoseList(2) >>,
            << << Calibration(1, 1) >>, PoseList(1) >> }

\* camera indices callers pass, in and out of range
Indices == -1..MaxCameras

NoArg == <<>>

\* a call record: the operation, its arguments, how it ended ("ok", or the
\* outcome of undefined behaviour: "crash" or "garbage") and what it returned
Called(op, arg, outcome, ret) == [op |-> op, arg |-> arg, outcome |-> outcome, ret |-> ret]

NoValue == <<>>

NoCall == Called("none", NoArg, "ok", NoValue)

(***************************************************************************)
(* Helpers.                                                                 *)
(***************************************************************************)
NumCams == Len(camera_params_)

InRange(i, v) == 0 <= i /\ i < Len(v)

\* v[i] of a std::vector, i in range
At(v, i) == v[i + 1]

\* v with v[i] = x
Put(v, i, x) == [v EXCEPT ![i + 1] = x]

Alive == constructed /\ ~fault

IsPrefix(s, t) == Len(s) <= Len(t) /\ SubSeq(t, 1, Len(s)) = s

(***************************************************************************)
(* DepthProcessor::Undistort.  A pure function of the raw depth, the        *)
(* undistortion map and the intrinsics and depth range the processor was    *)
(* constructed with; kept as the term of its arguments.                     *)
(***************************************************************************)
Undistort(processor, raw, map) ==
  [raw |-> raw, map |-> map,
   intrinsics |-> processor.intrinsics, depth_range |-> processor.depth_range]

(***************************************************************************)
(* RegularGridTSDF: the shared volume, as the sequence of observations      *)
(* fused into it since the last Reset.                                      *)
(***************************************************************************)
GridEmpty == <<>>

GridReset(grid) == GridEmpty

Observation(flpp, range, cfw, depth) ==
  [flpp |-> flpp, depth_range |-> range, camera_from_world |-> cfw, depth |-> depth]

GridFuse(grid, flpp, range, cfw, depth) ==
  Append(grid, Observation(flpp, range, cfw, depth))

\* one observation per camera entry of the batch, with the depth map of the
\* same position when there is one
GridFuseMultiple(grid, cameras, depths) ==
  grid \o [k \in 1..Len(cameras) |->
             Observation(cameras[k].flpp, cameras[k].depth_min_max,
                         cameras[k].camera_from_world,
                         IF k <= Len(depths) THEN depths[k] ELSE NoDepthMap)]

\* the mesh extracted from the volume: no vertex from an empty volume, and
\* one vertex per fused observation otherwise
GridTriangulate(grid) ==
  [positions |-> [k \in 1..Len(grid) |-> <<k, grid[k].camera_from_world>>],
   normals   |-> [k \in 1..Len(grid) |-> <<grid[k].flpp, 1>>]]

\* Raycast and AdaptiveRaycast read the volume and fill the output buffers
GridRaycast(kernel, flpp, world_from_camera, grid) ==
  [kernel |-> kernel, flpp |-> flpp, world_from_camera |-> world_from_camera,
   volume |-> grid]

(***************************************************************************)
(* Matrix4f as a 2-D affine map [a b tx; c d ty] with integer entries and   *)
(* determinant 1 or -1, so that the inverse is an integer matrix.           *)
(***************************************************************************)
Affine(a, b, c, d, tx, ty) == [a |-> a, b |-> b, c |-> c, d |-> d, tx |-> tx, ty |-> ty]

Identity == Affine(1, 0, 0, 1, 0, 0)

Transforms ==
  { Identity,
    Affine(1, 0, 0, 1, 2, 3),      \* translation
    Affine(0, -1, 1, 0, 0, 0),     \* rotation by 90 degrees
    Affine(-1, 1, 0, 1, 1, -1) }   \* reflection, shear and translation

Det(m) == m.a * m.d - m.b * m.c

\* Matrix4f::transformPoint: the full affine map
transformPoint(m, v) ==
  << m.a * v[1] + m.b * v[2] + m.tx, m.c * v[1] + m.d * v[2] + m.ty >>

\* Matrix4f::transformNormal: the inverse transpose of the linear part
transformNormal(m, n) ==
  << Det(m) * (m.d * n[1] - m.c * n[2]), Det(m) * (m.a * n[2] - m.b * n[1]) >>

(***************************************************************************)
(* The pipeline.                                                            *)
(***************************************************************************)
\* contents of a buffer or texture no raycast has been written to
Unwritten == Blank

\* MultiStaticCameraGLState after its constructor: the textures have the
\* depth resolution of camera 0, the raycast buffers are empty, the free
\* camera is the default one and the raycast is due
GLInit ==
  /\ tsdf_is_dirty_ = TRUE
  /\ free_camera_ = "default"
  /\ window_size_ = 0
  /\ free_camera_world_positions_ = [size |-> 0, content |-> Unwritten]
  /\ free_camera_world_normals_ = [size |-> 0, content |-> Unwritten]
  /\ free_camera_world_positions_tex_ = [size |-> 1, content |-> Unwritten]
  /\ free_camera_world_normals_tex_ = [size |-> 1, content |-> Unwritten]
  /\ tsdf_updates = 0
  /\ glcall = [op |-> "none", raycast |-> FALSE, drawn |-> Unwritten]

Init ==
  /\ constructed = FALSE
  /\ camera_params_ = <<>>
  /\ depth_camera_poses_cfw_ = <<>>
  /\ depth_processor_ = [intrinsics |-> 0, depth_range |-> 0]
  /\ depth_meters_ = <<>>
  /\ depth_camera_undistort_maps_ = <<>>
  /\ undistorted_depth_meters_ = <<>>
  /\ input_buffers_ = <<>>
  /\ regular_grid_ = GridEmpty
  /\ call = NoCall
  /\ fault = FALSE
  /\ GLInit

\* MultiStaticCameraPipeline::MultiStaticCameraPipeline
Construct(params, poses) ==
  /\ ~constructed
  /\ constructed' = TRUE
  /\ regular_grid_' = GridEmpty
  /\ camera_params_' = params
  /\ depth_camera_poses_cfw_' = poses
  /\ depth_processor_' = [intrinsics |-> params[1].intrinsics,
                          depth_range |-> params[1].depth_range]
  /\ depth_meters_' = [k \in 1..Len(params) |-> Blank]
  /\ depth_camera_undistort_maps_' =
       [k \in 1..Len(params) |-> params[k].undistortion_map]
  /\ undistorted_depth_meters_' = [k \in 1..Len(params) |-> Blank]
  /\ input_buffers_' = [k \in 1..Len(params) |-> Blank]
  /\ call' = Called("Construct", NoArg, "ok", NoValue)
  /\ UNCHANGED <<fault, glVars>>

\* everything but the last call and the fault flag
pipeState == <<constructed, camera_params_, depth_camera_poses_cfw_,
               depth_processor_, depth_meters_, depth_camera_undistort_maps_,
               undistorted_depth_meters_, input_buffers_, regular_grid_>>

\* a read or write of v[i] with i outside the vector is undefined behaviour:
\* the process crashes, or goes on with whatever the memory holds
OutOfRangeOutcomes == {"crash", "garbage"}

\* an accessor: ret is the value it returns for an index in range
Accessor(op, i, inRange, value) ==
  /\ Alive
  /\ \E outcome \in (IF inRange THEN {"ok"} ELSE OutOfRangeOutcomes) :
       /\ call' = Called(op, <<i>>, outcome,
                          IF outcome = "ok" THEN value
                          ELSE IF outcome = "garbage" THEN Garbage ELSE NoValue)
       /\ fault' = (outcome = "crash")
  /\ UNCHANGED <<pipeState, glVars>>

\* MultiStaticCameraPipeline::NumCameras
NumCameras ==
  /\ Alive
  /\ call' = Called("NumCameras", NoArg, "ok", Len(camera_params_))
  /\ UNCHANGED <<pipeState, fault, glVars>>

\* MultiStaticCameraPipeline::GetCameraParameters
GetCameraParameters(camera_index) ==
  Accessor("GetCameraParameters", camera_index,
           InRange(camera_index, camera_params_),
           camera_params_[camera_index + 1])

\* MultiStaticCameraPipeline::GetInputBuffer
GetInputBuffer(camera_index) ==
  Accessor("GetInputBuffer", camera_index,
           InRange(camera_index, input_buffers_),
           input_buffers_[camera_index + 1])

\* MultiStaticCameraPipeline::GetUndistortedDepthMap
GetUndistortedDepthMap(camera_index) ==
  Accessor("GetUndistortedDepthMap", camera_index,
           InRange(camera_index, undistorted_depth_meters_),
           undistorted_depth_meters_[camera_index + 1])

\* MultiStaticCameraPipeline::GetDepthCamera: reads the pose list and the
\* calibration list at the same index
GetDepthCamera(camera_index) ==
  Accessor("GetDepthCamera", camera_index,
           InRange(camera_index, depth_camera_poses_cfw_)
             /\ InRange(camera_index, camera_params_),
           [pose |-> depth_camera_poses_cfw_[camera_index + 1],
            intrinsics |-> camera_params_[camera_index + 1].intrinsics,
            resolution |-> camera_params_[camera_index + 1].resolution,
            depth_range |-> camera_params_[camera_index + 1].depth_range])

\* MultiStaticCameraPipeline::TSDFGridBoundingBox and
\* TSDFWorldFromGridTransform: the volume's static description
TSDFGridDescription(op) ==
  /\ Alive
  /\ call' = Called(op, NoArg, "ok", "grid-description")
  /\ UNCHANGED <<pipeState, fault, glVars>>

\* the capture source writes a frame through the reference GetInputBuffer(i)
\* returned for a camera in range
WriteInput(camera_index, frame) ==
  /\ Alive
  /\ InRange(camera_index, input_buffers_)
  /\ input_buffers_' = Put(input_buffers_, camera_index, frame)
  /\ call' = Called("WriteInput", <<camera_index>>, "ok", NoValue)
  /\ UNCHANGED <<constructed, camera_params_, depth_camera_poses_cfw_,
                 depth_processor_, depth_meters_, depth_camera_undistort_maps_,
                 undistorted_depth_meters_, regular_grid_, fault, glVars>>

\* NotifyInputUpdated refreshing the depth of every camera instead of the
\* one it is called for
NotifyInputUpdatedEveryCamera(camera_index, color_updated, depth_updated) ==
  /\ Alive
  /\ InRange(camera_index, input_buffers_)
  /\ depth_meters_' = input_buffers_
  /\ undistorted_depth_meters_' =
       [k \in 1..Len(input_buffers_) |->
          Undistort(depth_processor_, input_buffers_[k],
                    depth_camera_undistort_maps_[k])]
  /\ call' = Called("NotifyInputUpdated", <<camera_index>>, "ok", NoValue)
  /\ UNCHANGED <<constructed, camera_params_, depth_camera_poses_cfw_,
                 depth_processor_, depth_camera_undistort_maps_,
                 input_buffers_, regular_grid_, fault, glVars>>

\* MultiStaticCameraPipeline::NotifyInputUpdated
NotifyInputUpdated(camera_index, color_updated, depth_updated) ==
  /\ Alive
  /\ IF InRange(camera_index, input_buffers_)
     THEN /\ depth_meters_' =
               Put(depth_meters_, camera_index, At(input_buffers_, camera_index))
          /\ undistorted_depth_meters_' =
               Put(undistorted_depth_meters_, camera_index,
                   Undistort(depth_processor_,
                             At(depth_meters_', camera_index),
                             At(depth_camera_undistort_maps_, camera_index)))
          /\ call' = Called("NotifyInputUpdated", <<camera_index>>, "ok", NoValue)
          /\ UNCHANGED fault
     ELSE \E outcome \in OutOfRangeOutcomes :
            /\ call' = Called("NotifyInputUpdated", <<camera_index>>, outcome, NoValue)
            /\ fault' = (outcome = "crash")
            /\ UNCHANGED <<depth_meters_, undistorted_depth_meters_>>
  /\ UNCHANGED <<constructed, camera_params_, depth_camera_poses_cfw_,
                 depth_processor_, depth_camera_undistort_maps_,
                 input_buffers_, regular_grid_, glVars>>

\* Reset clearing the cameras' depth buffers along with the volume
ResetWithBuffers ==
  /\ Alive
  /\ regular_grid_' = GridReset(regular_grid_)
  /\ depth_meters_' = [k \in 1..Len(depth_meters_) |-> Blank]
  /\ undistorted_depth_meters_' = [k \in 1..Len(depth_meters_) |-> Blank]
  /\ call' = Called("Reset", NoArg, "ok", NoValue)
  /\ UNCHANGED <<constructed, camera_params_, depth_camera_poses_cfw_,
                 depth_processor_, depth_camera_undistort_maps_,
                 input_buffers_, fault, glVars>>

\* MultiStaticCameraPipeline::Reset
Reset ==
  /\ Alive
  /\ regular_grid_' = GridReset(regular_grid_)
  /\ call' = Called("Reset", NoArg, "ok", NoValue)
  /\ UNCHANGED <<constructed, camera_params_, depth_camera_poses_cfw_,
                 depth_processor_, depth_meters_, depth_camera_undistort_maps_,
                 undistorted_depth_meters_, input_buffers_, fault, glVars>>

\* depth_camera_poses_cfw_[k - 1] as Fuse and FuseMultiple read it
PoseRead(k) ==
  IF k <= Len(depth_camera_poses_cfw_) THEN depth_camera_poses_cfw_[k] ELSE GarbagePose

\* the number of cameras whose pose the loop reads before it first leaves
\* the pose list
PosesInRange ==
  IF Len(depth_meters_) <= Len(depth_camera_poses_cfw_)
  THEN Len(depth_meters_) ELSE Len(depth_camera_poses_cfw_)

RECURSIVE FuseLoop(_, _, _)
\* iterations k..last of the loop of Fuse, in order
FuseLoop(grid, k, last) ==
  IF k > last THEN grid
  ELSE FuseLoop(GridFuse(grid, camera_params_[k].intrinsics,
                         camera_params_[k].depth_range, PoseRead(k),
                         undistorted_depth_meters_[k]),
                k + 1, last)

\* MultiStaticCameraPipeline::Fuse
Fuse ==
  /\ Alive
  /\ Len(regular_grid_) < MaxVolume
  /\ \E outcome \in (IF PosesInRange = Len(depth_meters_)
                     THEN {"ok"} ELSE OutOfRangeOutcomes) :
       /\ regular_grid_' =
            FuseLoop(regular_grid_, 1,
                     IF outcome = "crash" THEN PosesInRange ELSE Len(depth_meters_))
       /\ call' = Called("Fuse", NoArg, outcome, NoValue)
       /\ fault' = (outcome = "crash")
  /\ UNCHANGED <<constructed, camera_params_, depth_camera_poses_cfw_,
                 depth_processor_, depth_meters_, depth_camera_undistort_maps_,
                 undistorted_depth_meters_, input_buffers_, glVars>>

\* a value-initialized CalibratedPosedDepthCamera
ZeroCamera == [flpp |-> 0, depth_min_max |-> 0, camera_from_world |-> 0]

\* the vector c of FuseMultiple after its loop: BatchSlots entries, the
\* first ones overwritten with the cameras' parameters
PackedCameras ==
  [k \in 1..BatchSlots |->
     IF k <= Len(depth_meters_)
     THEN [flpp |-> camera_params_[k].intrinsics,
           depth_min_max |-> camera_params_[k].depth_range,
           camera_from_world |-> PoseRead(k)]
     ELSE ZeroCamera]

\* FuseMultiple resetting the volume before it fuses its batch
FuseMultipleIntoResetVolume ==
  /\ Alive
  /\ Len(regular_grid_) < MaxVolume
  /\ \E outcome \in (IF Len(depth_meters_) <= BatchSlots
                        /\ PosesInRange = Len(depth_meters_)
                     THEN {"ok"} ELSE OutOfRangeOutcomes) :
       /\ regular_grid_' =
            IF outcome = "crash" THEN regular_grid_
            ELSE GridFuseMultiple(GridReset(regular_grid_), PackedCameras,
                                  undistorted_depth_meters_)
       /\ call' = Called("FuseMultiple", NoArg, outcome, NoValue)
       /\ fault' = (outcome = "crash")
  /\ UNCHANGED <<constructed, camera_params_, depth_camera_poses_cfw_,
                 depth_processor_, depth_meters_, depth_camera_undistort_maps_,
                 undistorted_depth_meters_, input_buffers_, glVars>>

\* MultiStaticCameraPipeline::FuseMultiple.  The loop leaves the storage of
\* c when there are more than BatchSlots cameras, and that of the pose list
\* when there are fewer poses than cameras.
FuseMultiple ==
  /\ Alive
  /\ Len(regular_grid_) < MaxVolume
  /\ \E outcome \in (IF Len(depth_meters_) <= BatchSlots
                        /\ PosesInRange = Len(depth_meters_)
                     THEN {"ok"} ELSE OutOfRangeOutcomes) :
       /\ regular_grid_' =
            IF outcome = "crash" THEN regular_grid_
            ELSE GridFuseMultiple(regular_grid_, PackedCameras,
                                  undistorted_depth_meters_)
       /\ call' = Called("FuseMultiple", NoArg, outcome, NoValue)
       /\ fault' = (outcome = "crash")
  /\ UNCHANGED <<constructed, camera_params_, depth_camera_poses_cfw_,
                 depth_processor_, depth_meters_, depth_camera_undistort_maps_,
                 undistorted_depth_meters_, input_buffers_, glVars>>

\* free cameras and output-buffer sizes handed to Raycast
FreeCameras == {"default", "moved"}

BufferSizes == {1, 2}

\* camera.intrinsics(size): the camera's intrinsics scaled to the buffer size
ScaledIntrinsics(camera, size) == <<camera, size>>

\* the contents Raycast leaves in world_points / world_normals
RaycastOutput(camera, size, adaptive) ==
  GridRaycast(IF adaptive THEN "AdaptiveRaycast" ELSE "Raycast",
              ScaledIntrinsics(camera, size), camera, regular_grid_)

\* MultiStaticCameraPipeline::Raycast
Raycast(camera, size, adaptive) ==
  /\ Alive
  /\ call' = Called("Raycast", <<camera, size, adaptive>>, "ok",
                     RaycastOutput(camera, size, adaptive))
  /\ UNCHANGED <<pipeState, fault, glVars>>

\* Triangulate transforming the normals as points, translation included
TriangulateMeshNormalsAsPoints(output_from_world, grid) ==
  LET mesh == GridTriangulate(grid) IN
  [positions |-> [k \in 1..Len(mesh.positions) |->
                    transformPoint(output_from_world, mesh.positions[k])],
   normals   |-> [k \in 1..Len(mesh.normals) |->
                    transformPoint(output_from_world, mesh.normals[k])]]

\* the mesh Triangulate returns
TriangulateMesh(output_from_world, grid) ==
  LET mesh == GridTriangulate(grid) IN
  [positions |-> [k \in 1..Len(mesh.positions) |->
                    transformPoint(output_from_world, mesh.positions[k])],
   normals   |-> [k \in 1..Len(mesh.normals) |->
                    transformNormal(output_from_world, mesh.normals[k])]]

\* MultiStaticCameraPipeline::Triangulate
Triangulate(output_from_world) ==
  /\ Alive
  /\ call' = Called("Triangulate", <<output_from_world>>, "ok",
                     TriangulateMesh(output_from_world, regular_grid_))
  /\ UNCHANGED <<pipeState, fault, glVars>>

Next ==
  \/ \E input \in ConstructorInputs : Construct(input[1], input[2])
  \/ NumCameras
  \/ \E i \in Indices : GetCameraParameters(i)
  \/ \E i \in Indices : GetInputBuffer(i)
  \/ \E i \in Indices : GetUndistortedDepthMap(i)
  \/ \E i \in Indices : GetDepthCamera(i)
  \/ \E op \in {"TSDFGridBoundingBox", "TSDFWorldFromGridTransform"} :
       TSDFGridDescription(op)
  \/ \E i \in Indices, f \in Frames : WriteInput(i, f)
  \/ \E i \in Indices, c \in BOOLEAN, d \in BOOLEAN : NotifyInputUpdated(i, c, d)
  \/ Reset
  \/ Fuse
  \/ FuseMultiple
  \/ \E camera \in FreeCameras, size \in BufferSizes, adaptive \in BOOLEAN :
       Raycast(camera, size, adaptive)
  \/ \E t \in Transforms : Triangulate(t)

Spec == Init /\ [][Next]_vars

(***************************************************************************)
(* MultiStaticCameraGLState: the cached fullscreen raycast.                 *)
(***************************************************************************)
\* window sizes handed to Resize
WindowSizes == {1, 2}

\* the state of a pipeline of one camera, as Construct leaves it
InitGL ==
  /\ constructed = TRUE
  /\ camera_params_ = << Calibration(1, 0) >>
  /\ depth_camera_poses_cfw_ = << 41 >>
  /\ depth_processor_ = [intrinsics |-> Calibration(1, 0).intrinsics,
                         depth_range |-> Calibration(1, 0).depth_range]
  /\ depth_meters_ = << Blank >>
  /\ depth_camera_undistort_maps_ = << Calibration(1, 0).undistortion_map >>
  /\ undistorted_depth_meters_ = << Blank >>
  /\ input_buffers_ = << Blank >>
  /\ regular_grid_ = GridEmpty
  /\ call = NoCall
  /\ fault = FALSE
  /\ GLInit

GLCalled(op, raycast, drawn) == [op |-> op, raycast |-> raycast, drawn |-> drawn]

\* MultiStaticCameraGLState::NotifyTSDFUpdated
NotifyTSDFUpdated ==
  /\ tsdf_updates < MaxUpdates
  /\ tsdf_is_dirty_' = TRUE
  /\ tsdf_updates' = tsdf_updates + 1
  /\ glcall' = GLCalled("NotifyTSDFUpdated", FALSE, Unwritten)
  /\ UNCHANGED <<pipeVars, free_camera_, window_size_,
                 free_camera_world_positions_, free_camera_world_normals_,
                 free_camera_world_positions_tex_, free_camera_world_normals_tex_>>

\* DeviceArray2D::resize: a buffer of another size is allocated anew
Resized(buffer, size) ==
  IF buffer.size = size THEN buffer ELSE [size |-> size, content |-> Unwritten]

\* a texture constructed with the given size
NewTexture(size) == [size |-> size, content |-> Unwritten]

\* MultiStaticCameraGLState::Resize
Resize(size) ==
  LET downsampled_size == size \div kFullscreenRaycastDownsampleFactor IN
  /\ window_size_' = size
  /\ free_camera_world_positions_' = Resized(free_camera_world_positions_, downsampled_size)
  /\ free_camera_world_normals_' = Resized(free_camera_world_normals_, downsampled_size)
  /\ free_camera_world_positions_tex_' = NewTexture(downsampled_size)
  /\ free_camera_world_normals_tex_' = NewTexture(downsampled_size)
  /\ glcall' = GLCalled("Resize", FALSE, Unwritten)
  /\ UNCHANGED <<pipeVars, tsdf_is_dirty_, free_camera_, tsdf_updates>>

\* what pipeline_->Raycast(camera, ...) writes into a buffer of the given
\* size, tagged with the number of volume updates notified so far
Raycasted(camera, size, adaptive) ==
  [written |-> TRUE, output |-> RaycastOutput(camera, size, adaptive),
   size |-> size, updates |-> tsdf_updates]

\* copy(src, texture.map().array()): copies when the sizes agree
CopyTo(buffer, texture) ==
  IF buffer.size = texture.size
  THEN [texture EXCEPT !.content = buffer.content] ELSE texture

\* the dirty flag as DrawFullscreenRaycast finds it: Render sets it when the
\* free camera differs from the stored one
DirtyAtDraw(free_camera) == tsdf_is_dirty_ \/ free_camera # free_camera_

\* MultiStaticCameraGLState::DrawFullscreenRaycast, for the free camera
\* Render has stored and the dirty flag it has left; adaptive is
\* FLAGS_adaptive_raycast.  The flag is false afterwards: cleared when it
\* was set, left alone when it was not.
DrawFullscreenRaycast(camera, dirty, adaptive) ==
  /\ IF dirty
     THEN /\ free_camera_world_positions_' =
               [free_camera_world_positions_ EXCEPT
                  !.content = Raycasted(camera, free_camera_world_positions_.size, adaptive)]
          /\ free_camera_world_normals_' =
               [free_camera_world_normals_ EXCEPT
                  !.content = Raycasted(camera, free_camera_world_normals_.size, adaptive)]
          /\ free_camera_world_positions_tex_' =
               CopyTo(free_camera_world_positions_', free_camera_world_positions_tex_)
          /\ free_camera_world_normals_tex_' =
               CopyTo(free_camera_world_normals_', free_camera_world_normals_tex_)
     ELSE UNCHANGED <<free_camera_world_positions_, free_camera_world_normals_,
                      free_camera_world_positions_tex_, free_camera_world_normals_tex_>>
  /\ tsdf_is_dirty_' = FALSE
  /\ glcall' = GLCalled("Render", dirty, free_camera_world_normals_tex_'.content)

\* MultiStaticCameraGLState::Render.  The uploads of the cameras' depth maps
\* and the frusta updates read the pipeline at indices below NumCameras()
\* and write only per-camera textures, which are not part of this state.
Render(free_camera) ==
  /\ free_camera_' = free_camera
  /\ \E adaptive \in BOOLEAN :
       DrawFullscreenRaycast(free_camera, DirtyAtDraw(free_camera), adaptive)
  /\ UNCHANGED <<pipeVars, window_size_, tsdf_updates>>

NextGL ==
  \/ NotifyTSDFUpdated
  \/ \E size \in WindowSizes : Resize(size)
  \/ \E camera \in FreeCameras : Render(camera)

SpecGL == InitGL /\ [][NextGL]_vars

(***************************************************************************)
(* Properties.                                                              *)
(***************************************************************************)
\* the operations that take a camera index
IndexedOps == {"GetCameraParameters", "NotifyInputUpdated", "GetInputBuffer",
               "GetUndistortedDepthMap", "GetDepthCamera"}

\* after is before followed by one observation per camera 0..N-1, in order,
\* each with that camera's intrinsics, depth range, pose and undistorted depth
HandsOwnObservations(before, after) ==
  /\ Len(after) = Len(before) + NumCams
  /\ IsPrefix(before, after)
  /\ \A k \in 1..NumCams :
       LET o == after[Len(before) + k] IN
       /\ o.flpp = camera_params_[k].intrinsics
       /\ o.depth_range = camera_params_[k].depth_range
       /\ k <= Len(depth_camera_poses_cfw_)
       /\ o.camera_from_world = depth_camera_poses_cfw_[k]
       /\ o.depth = undistorted_depth_meters_[k]

\* the constructor was given one pose per camera and positive resolutions
WellConstructed ==
  /\ constructed
  /\ Len(depth_camera_poses_cfw_) = Len(camera_params_)
  /\ \A k \in 1..Len(camera_params_) : camera_params_[k].resolution > 0

\* C1: in a pipeline constructed with one pose per camera, from any volume
\* state, FuseMultiple() leaves the volume as Fuse() from the same state
\* leaves it, i.e. it hands the volume the same observations, one per camera.
C1_FuseMultipleAsFuse ==
  [][ (call'.op = "FuseMultiple" /\ WellConstructed)
        => regular_grid_' = FuseLoop(regular_grid_, 1, Len(depth_meters_)) ]_vars

\* C2: in a pipeline constructed with one pose per camera, after
\* NotifyInputUpdated(i, _, _) with i in range, rawDepth[i] is the depth of
\* camera i's input buffer and undistortedDepth[i] is the undistortion of
\* rawDepth[i] with camera i's own map, intrinsics and depth range.
C2_UndistortsWithOwnCalibration ==
  (call.op = "NotifyInputUpdated" /\ InRange(call.arg[1], camera_params_)
     /\ WellConstructed)
    => LET k == call.arg[1] + 1 IN
       /\ depth_meters_[k] = input_buffers_[k]
       /\ undistorted_depth_meters_[k] =
            [raw |-> depth_meters_[k],
             map |-> camera_params_[k].undistortion_map,
             intrinsics |-> camera_params_[k].intrinsics,
             depth_range |-> camera_params_[k].depth_range]

\* C3: no pipeline is ever constructed from lists of different lengths or
\* from a camera of non-positive depth resolution: every constructed
\* pipeline has one pose per camera and positive resolutions.
C3_NeverConstructedFromBadLists ==
  constructed =>
    /\ Len(depth_camera_poses_cfw_) = Len(camera_params_)
    /\ \A k \in 1..Len(camera_params_) : camera_params_[k].resolution > 0

\* C4: in a pipeline constructed with one pose per camera, an indexed
\* operation called with a camera index outside [0, NumCameras()) ends in a
\* fault; it never goes on with memory outside the per-camera arrays.
C4_OutOfRangeIndexFaults ==
  (call.op \in IndexedOps /\ ~InRange(call.arg[1], camera_params_)
     /\ WellConstructed) => fault

\* C5: NotifyInputUpdated(i, _, _) with i in range changes nothing but
\* rawDepth[i] and undistortedDepth[i]: the raw and undistorted depth of
\* every other camera, all input buffers, undistortion maps, calibrations
\* and poses, the depth processor and the shared volume stay as they were.
C5_NotifyFrame ==
  [][ (call'.op = "NotifyInputUpdated" /\ InRange(call'.arg[1], camera_params_))
        => /\ \A k \in 1..NumCams :
                k # call'.arg[1] + 1 =>
                  /\ depth_meters_'[k] = depth_meters_[k]
                  /\ undistorted_depth_meters_'[k] = undistorted_depth_meters_[k]
           /\ Len(depth_meters_') = Len(depth_meters_)
           /\ Len(undistorted_depth_meters_') = Len(undistorted_depth_meters_)
           /\ UNCHANGED <<input_buffers_, depth_camera_undistort_maps_,
                          camera_params_, depth_camera_poses_cfw_,
                          depth_processor_, regular_grid_>> ]_vars

\* C5 witness: camera 1 has just been notified in a pipeline where camera 0
\* holds an undistorted frame of its own.
C5_Witness ==
  /\ call.op = "NotifyInputUpdated"
  /\ call.arg[1] = 1
  /\ NumCams = 2
  /\ depth_meters_[2] # Blank
  /\ depth_meters_[1] # Blank
  /\ regular_grid_ # GridEmpty

\* C6: Reset() leaves the volume empty, so that Triangulate(identity) has no
\* vertex, and leaves every per-camera buffer, map, calibration and pose as
\* it was; a Reset() right after a Reset() changes nothing.
C6_ResetEmptiesVolumeOnly ==
  [][ call'.op = "Reset"
        => /\ regular_grid_' = GridEmpty
           /\ TriangulateMesh(Identity, regular_grid_').positions = << >>
           /\ TriangulateMesh(Identity, regular_grid_').normals = << >>
           /\ UNCHANGED <<depth_meters_, undistorted_depth_meters_, input_buffers_,
                          depth_camera_undistort_maps_, camera_params_,
                          depth_camera_poses_cfw_, depth_processor_>>
           /\ (call.op = "Reset" => UNCHANGED pipeState) ]_vars

\* C6 witness: Reset() has just run in a pipeline whose cameras hold
\* undistorted frames.
C6_Witness ==
  /\ call.op = "Reset"
  /\ regular_grid_ = GridEmpty
  /\ NumCams = 2
  /\ \A k \in 1..NumCams : undistorted_depth_meters_[k] # Blank

\* C7: one Fuse() call appends exactly one observation per camera 0..N-1, in
\* index order, each with that camera's own intrinsics, depth range,
\* camera-from-world pose and current undistorted depth.
C7_FuseHandsOwnObservations ==
  [][ call'.op = "Fuse" => HandsOwnObservations(regular_grid_, regular_grid_') ]_vars

\* Fuse() does hand every camera's own observation when the constructor
\* was given one pose per camera.
FuseHandsOwnObservationsWhenPosed ==
  [][ (call'.op = "Fuse" /\ Len(depth_meters_) <= Len(depth_camera_poses_cfw_))
        => HandsOwnObservations(regular_grid_, regular_grid_') ]_vars

\* Render runs the pipeline's Raycast exactly when the dirty flag is set,
\* by NotifyTSDFUpdated or by a changed free camera, and leaves it cleared.
RenderRaycastsWhenDirty ==
  [][ glcall'.op = "Render"
        => /\ glcall'.raycast = (tsdf_is_dirty_ \/ free_camera_' # free_camera_)
           /\ ~tsdf_is_dirty_' ]_vars

\* C8: the mesh Triangulate(T) returns has as many positions and normals as
\* the extracted mesh, in the same order; position k is the linear part of T
\* applied to the extracted position plus T's translation, which is T
\* applied to position k of Triangulate(identity); normal k is the vector
\* that the transpose of T's linear part maps back to the extracted normal.
C8_TriangulateTransforms ==
  call.op = "Triangulate" =>
    LET T == call.arg[1]
        extracted == GridTriangulate(regular_grid_)
        identity == TriangulateMesh(Identity, regular_grid_)
        mesh == call.ret
    IN /\ Len(mesh.positions) = Len(extracted.positions)
       /\ Len(mesh.normals) = Len(extracted.normals)
       /\ \A k \in 1..Len(extracted.positions) :
            LET p == extracted.positions[k]
                q == identity.positions[k]
                n == extracted.normals[k]
                m == mesh.normals[k]
            IN /\ mesh.positions[k] =
                    << T.a * p[1] + T.b * p[2] + T.tx, T.c * p[1] + T.d * p[2] + T.ty >>
               /\ mesh.positions[k] =
                    << T.a * q[1] + T.b * q[2] + T.tx, T.c * q[1] + T.d * q[2] + T.ty >>
               /\ << T.a * m[1] + T.c * m[2], T.b * m[1] + T.d * m[2] >> = n

\* C8 witness: Triangulate has just returned a mesh of several vertices for
\* a transform that translates and does not keep directions.
C8_Witness ==
  /\ call.op = "Triangulate"
  /\ call.arg[1] = Affine(-1, 1, 0, 1, 1, -1)
  /\ Len(call.ret.positions) >= 2

\* C9: the volume starts empty and changes only in a Fuse() or
\* FuseMultiple() step, which keeps what was fused and adds to it, or in a
\* Reset() step, which empties it; no other operation changes it.
C9_VolumeChangesOnlyByFuseAndReset ==
  /\ regular_grid_ = GridEmpty
  /\ [][ /\ regular_grid_' # regular_grid_
            => \/ /\ call'.op \in {"Fuse", "FuseMultiple"}
                  /\ IsPrefix(regular_grid_, regular_grid_')
                  /\ Len(regular_grid_') > Len(regular_grid_)
               \/ /\ call'.op = "Reset"
                  /\ regular_grid_' = GridEmpty
         /\ call'.op \in {"Fuse", "FuseMultiple"}
            => IsPrefix(regular_grid_, regular_grid_') ]_vars

\* C9 witness: Raycast has just run on a volume whose last batch was added
\* by FuseMultiple() to what Fuse() calls had accumulated before it: the
\* volume holds more than one batch, it ends with a batch entry that only
\* FuseMultiple() hands over, and it starts with observations of Fuse().
C9_Witness ==
  /\ call.op = "Raycast"
  /\ NumCams = 1
  /\ Len(regular_grid_) >= BatchSlots + 2
  /\ regular_grid_[Len(regular_grid_)].depth = NoDepthMap
  /\ \A k \in 1..(Len(regular_grid_) - BatchSlots) :
       regular_grid_[k].depth # NoDepthMap

\* C10: once the window has been sized, what Render draws is a raycast
\* result computed for the stored free camera, at the current buffer size,
\* after the last NotifyTSDFUpdated.
C10_RenderDrawsCurrentRaycast ==
  (glcall.op = "Render" /\ window_size_ # 0)
    => /\ glcall.drawn.written
       /\ glcall.drawn.output.world_from_camera = free_camera_
       /\ glcall.drawn.size = free_camera_world_normals_.size
       /\ glcall.drawn.updates = tsdf_updates

====
